---- MODULE Spec2Model ----
(***************************************************************************)
(* Model of the staking program (programs/staking/src): one Pool account,  *)
(* its User accounts, the two token vaults and the cluster clock.          *)
(*                                                                         *)
(* Every instruction is one atomic action.  An instruction that returns    *)
(* Err or panics (unwrap on None) is rolled back by the runtime, so it is  *)
(* a stuttering step; the operator <op>_res gives the result ("ok" or the  *)
(* error) an instruction has in the current state.  The variable "last"    *)
(* records the last instruction that succeeded, with its arguments.        *)
(*                                                                         *)
(* Widths are scaled: u64 is 0..U64_MAX and u128 is 0..U128_MAX with       *)
(* U128_MAX = U64_MAX * (U64_MAX + 2), the same relation 2^128 - 1 has to  *)
(* 2^64 - 1.  PRECISION is u64::MAX as in the source.  The clock counts in  *)
(* units of MIN_DURATION (86400 seconds).                                  *)
(***************************************************************************)
EXTENDS Integers, Sequences, FiniteSets

\* ---------------------------------------------------------------- bounds
U64_MAX == 7
U32_MAX == 3
MaxTime == 2
MaxStake == 1
MaxDuration == 2
MaxLock == 1
StakeSupply == 2
NumFunderKeys == 4

U128_MAX == U64_MAX * (U64_MAX + 2)
\* supply of the reward mint (a u64); StakeSupply is the staking mint's
RewardSupply == U64_MAX

\* ------------------------------------------------------------- constants
PRECISION == U64_MAX
MIN_DURATION == 1
FUNDERS_LEN == 5
TIER_INFO == <<1, 2>>

\* ------------------------------------------------------------ identities
\* Pubkeys are numbered: 0 is Pubkey::default(), the empty-slot sentinel.
DefaultPubkey == 0
Authority == 1
Owners == {2, 3}
FunderKeys == 4..(3 + NumFunderKeys)
Funder1 == 4
AllKeys == {DefaultPubkey, Authority} \cup Owners \cup FunderKeys
\* Pubkey::default() is the system program id: nobody can sign for it.
Signers == AllKeys \ {DefaultPubkey}

\* -------------------------------------------------- checked arithmetic
\* PANIC is the None of checked_*; unwrap() on it aborts the instruction.
PANIC == -1

Min(a, b) == IF a <= b THEN a ELSE b

\* mutant: wrapping_add in place of checked_add
checked_add_wrapping(a, b, max) ==
    IF a = PANIC \/ b = PANIC THEN PANIC ELSE (a + b) % (max + 1)

checked_add(a, b, max) ==
    IF a = PANIC \/ b = PANIC THEN PANIC
    ELSE IF a + b > max THEN PANIC ELSE a + b

checked_sub(a, b) ==
    IF a = PANIC \/ b = PANIC THEN PANIC
    ELSE IF a < b THEN PANIC ELSE a - b

checked_mul(a, b, max) ==
    IF a = PANIC \/ b = PANIC THEN PANIC
    ELSE IF a * b > max THEN PANIC ELSE a * b

checked_div(a, b) ==
    IF a = PANIC \/ b = PANIC THEN PANIC
    ELSE IF b = 0 THEN PANIC ELSE a \div b

\* u128 -> u64 try_into
try_into_u64(a) ==
    IF a = PANIC THEN PANIC ELSE IF a > U64_MAX THEN PANIC ELSE a

\* "+=" and "-=" on u64: panics when the build has overflow checks,
\* wraps otherwise.  The set of results the build can produce.
add_assign(a, b) ==
    IF a + b <= U64_MAX THEN {a + b}
    ELSE {PANIC, (a + b) % (U64_MAX + 1)}

\* mutant: the subtraction is dropped
sub_assign_dropped(a, b) == {a}

sub_assign(a, b) ==
    IF a >= b THEN {a - b}
    ELSE {PANIC, (a - b) + (U64_MAX + 1)}

\* ----------------------------------------------------------------- state
VARIABLES
    now,            \* Clock::unix_timestamp
    pool,           \* the Pool account
    pool_closed,    \* TRUE once close_pool destroyed the Pool account
    user,           \* owner -> User account (open = the account exists)
    staking_vault,  \* token amount of the staking vault
    reward_vault,   \* token amount of the reward vault
    stake_supply,   \* Mint.supply of the staking mint (a u64)
    last,           \* last successful instruction: op, signer, amount, key
    rt              \* history: the stake under observation and its unstake

vars ==
    <<now, pool, pool_closed, user, staking_vault, reward_vault, stake_supply,
      last, rt>>

NoUser ==
    [open |-> FALSE, reward_per_token_complete |-> 0,
     reward_per_token_pending |-> 0, balance_staked |-> 0,
     maturity_time |-> 0, tier |-> 0]

\* The round trip under observation: the last stake of a user (who, amount,
\* balance_staked and total_staked before it), the net amount other users
\* staked since (others), and what the matching unstake left.  on = FALSE:
\* nothing is observed.
RtIdle(on) ==
    [on |-> on, phase |-> "idle", who |-> DefaultPubkey, amount |-> 0,
     balance |-> 0, total |-> 0, others |-> 0,
     balance_after |-> 0, total_after |-> 0, returned |-> 0]

\* after a successful stake(amount) of o, read in the state before it
rt_stake(o, amount) ==
    IF ~rt.on THEN rt
    ELSE IF rt.phase = "staked" /\ o # rt.who
         THEN [rt EXCEPT !.others = @ + amount]
    ELSE [RtIdle(TRUE) EXCEPT !.phase = "staked", !.who = o,
                              !.amount = amount,
                              !.balance = user[o].balance_staked,
                              !.total = pool.total_staked]

\* after a successful unstake(spt_amount) of o that left the balance
\* bal_after and the total total_after and moved returned out of the vault
rt_unstake(o, spt_amount, bal_after, total_after, returned) ==
    IF ~rt.on \/ rt.phase # "staked" THEN rt
    ELSE IF o # rt.who THEN [rt EXCEPT !.others = @ - spt_amount]
    ELSE IF spt_amount # rt.amount THEN RtIdle(TRUE)
    ELSE [rt EXCEPT !.phase = "done", !.balance_after = bal_after,
                    !.total_after = total_after, !.returned = returned]

Outcome(op, who, amount, key) ==
    [op |-> op, who |-> who, amount |-> amount, key |-> key]

\* ---------------------------------------------------- RewardAccumulator
\* mutant: the clock is not capped at the end of the epoch
last_time_reward_applicable_uncapped(reward_duration_end, unix_timestamp) ==
    unix_timestamp

last_time_reward_applicable(reward_duration_end, unix_timestamp) ==
    Min(unix_timestamp, reward_duration_end)

\* mutant: wrapping_add in place of checked_add on the accumulator
reward_per_token_wrapping(total_staked, stored, ltra, last_update_time, reward_rate) ==
    IF total_staked = 0 THEN stored
    ELSE LET inc == checked_div(
                        checked_mul(
                            checked_mul(checked_sub(ltra, last_update_time),
                                        reward_rate, U128_MAX),
                            PRECISION, U128_MAX),
                        total_staked)
         IN  IF inc = PANIC THEN PANIC
             ELSE (stored + inc) % (U128_MAX + 1)

\* mutant: without the total_staked == 0 guard, the unstaked interval is
\* accrued as if one unit were staked
reward_per_token_accrues_unstaked(total_staked, stored, ltra, last_update_time, reward_rate) ==
    checked_add(
        stored,
        checked_div(
            checked_mul(
                checked_mul(checked_sub(ltra, last_update_time),
                            reward_rate, U128_MAX),
                PRECISION, U128_MAX),
            IF total_staked = 0 THEN 1 ELSE total_staked),
        U128_MAX)

reward_per_token(total_staked, stored, ltra, last_update_time, reward_rate) ==
    IF total_staked = 0 THEN stored
    ELSE checked_add(
            stored,
            checked_div(
                checked_mul(
                    checked_mul(checked_sub(ltra, last_update_time),
                                reward_rate, U128_MAX),
                    PRECISION, U128_MAX),
                total_staked),
            U128_MAX)

\* mutant: the division by PRECISION rounds up
earned_rounds_up(balance_staked, rpt, user_reward_per_token_paid, user_reward_pending) ==
    try_into_u64(
        checked_add(
            checked_div(
                checked_add(
                    checked_mul(balance_staked,
                                checked_sub(rpt, user_reward_per_token_paid),
                                U128_MAX),
                    PRECISION - 1, U128_MAX),
                PRECISION),
            user_reward_pending, U128_MAX))

earned(balance_staked, rpt, user_reward_per_token_paid, user_reward_pending) ==
    try_into_u64(
        checked_add(
            checked_div(
                checked_mul(balance_staked,
                            checked_sub(rpt, user_reward_per_token_paid),
                            U128_MAX),
                PRECISION),
            user_reward_pending, U128_MAX))

\* mutant: the user's snapshot is not moved to the new accumulator value
update_rewards_stale_snapshot(p, u, with_user, total_staked, t) ==
    LET ltra == last_time_reward_applicable(p.reward_duration_end, t)
        rpt == reward_per_token(total_staked, p.reward_per_token_stored,
                                ltra, p.last_update_time, p.reward_rate)
        pend == earned(u.balance_staked, rpt, u.reward_per_token_complete,
                       u.reward_per_token_pending)
        p2 == [p EXCEPT !.reward_per_token_stored = rpt,
                        !.last_update_time = ltra]
        u2 == [u EXCEPT !.reward_per_token_pending = pend]
    IN  IF rpt = PANIC THEN [panic |-> TRUE, pool |-> p, user |-> u]
        ELSE IF ~with_user THEN [panic |-> FALSE, pool |-> p2, user |-> u]
        ELSE IF pend = PANIC THEN [panic |-> TRUE, pool |-> p, user |-> u]
        ELSE [panic |-> FALSE, pool |-> p2, user |-> u2]

\* update_rewards(pool, Some(user) | None, total_staked) at clock time t.
\* Result: [panic, pool, user]; with_user = FALSE stands for None.
update_rewards(p, u, with_user, total_staked, t) ==
    LET ltra == last_time_reward_applicable(p.reward_duration_end, t)
        rpt == reward_per_token(total_staked, p.reward_per_token_stored,
                                ltra, p.last_update_time, p.reward_rate)
        pend == earned(u.balance_staked, rpt, u.reward_per_token_complete,
                       u.reward_per_token_pending)
        p2 == [p EXCEPT !.reward_per_token_stored = rpt,
                        !.last_update_time = ltra]
        u2 == [u EXCEPT !.reward_per_token_pending = pend,
                        !.reward_per_token_complete = rpt]
    IN  IF rpt = PANIC THEN [panic |-> TRUE, pool |-> p, user |-> u]
        ELSE IF ~with_user THEN [panic |-> FALSE, pool |-> p2, user |-> u]
        ELSE IF pend = PANIC THEN [panic |-> TRUE, pool |-> p, user |-> u]
        ELSE [panic |-> FALSE, pool |-> p2, user |-> u2]

\* -------------------------------------------------------- TierClassifier
RECURSIVE tier_from(_, _)
tier_from(amount, i) ==
    IF i > Len(TIER_INFO) THEN Len(TIER_INFO)
    ELSE IF amount < TIER_INFO[i] THEN i - 1
    ELSE tier_from(amount, i + 1)

get_tier(amount) == tier_from(amount, 1)

\* ------------------------------------------------------------------ Init
\* The state initialize_pool leaves: the Pool account is zeroed storage
\* (funders all Pubkey::default()) with the fields the handler sets.
initialize_pool(authority, reward_duration, lock_period, no_tier) ==
    [authority |-> authority,
     paused |-> FALSE,
     reward_duration |-> reward_duration,
     reward_duration_end |-> 0,
     lock_period |-> lock_period,
     last_update_time |-> 0,
     reward_rate |-> 0,
     reward_per_token_stored |-> 0,
     user_stake_count |-> 0,
     total_staked |-> 0,
     no_tier |-> no_tier,
     funders |-> [i \in 1..FUNDERS_LEN |-> DefaultPubkey]]

InitWith(supply, observe) ==
    /\ now = 0
    /\ \E d \in {MIN_DURATION, MaxDuration}, l \in {MaxLock}, nt \in {FALSE} :
          pool = initialize_pool(Authority, d, l, nt)
    /\ pool_closed = FALSE
    /\ user = [o \in Owners |-> NoUser]
    /\ staking_vault = 0
    /\ reward_vault = 0
    /\ stake_supply = supply
    /\ last = Outcome("initialize_pool", Authority, 0, DefaultPubkey)
    /\ rt = RtIdle(observe)

Init == InitWith(StakeSupply, FALSE)

\* The staking mint has the largest supply a u64 holds.
InitWide == InitWith(U64_MAX, FALSE)

\* Round trips of stake and unstake are observed.
InitRoundTrip == InitWith(StakeSupply, TRUE)

\* mutant: a failed instruction keeps the checkpoint it had computed
Fail_keeps_checkpoint ==
    /\ pool' = IF pool_closed THEN pool
               ELSE update_rewards(pool, NoUser, FALSE, pool.total_staked,
                                   now).pool
    /\ UNCHANGED <<now, pool_closed, user, staking_vault, reward_vault,
                   stake_supply, last, rt>>

\* An instruction that fails (Err or panic): the runtime rolls every
\* account back, nothing is recorded.
Fail == UNCHANGED vars

\* The clock advances (monotonic).
Tick ==
    /\ now < MaxTime
    /\ now' = now + 1
    /\ last' = Outcome("tick", DefaultPubkey, 0, DefaultPubkey)
    /\ UNCHANGED <<pool, pool_closed, user, staking_vault, reward_vault,
                   stake_supply, rt>>

\* ---------------------------------------------------------- create_user
\* mutant: the constraint on paused is missing
create_user_res_no_pause(o) ==
    IF pool_closed THEN "AccountNotInitialized"
    ELSE IF user[o].open THEN "AccountAlreadyInUse"
    ELSE IF checked_add(pool.user_stake_count, 1, U32_MAX) = PANIC THEN "Panic"
    ELSE "ok"

create_user_res(o) ==
    IF pool_closed THEN "AccountNotInitialized"
    ELSE IF user[o].open THEN "AccountAlreadyInUse"
    ELSE IF pool.paused THEN "PoolPaused"
    ELSE IF checked_add(pool.user_stake_count, 1, U32_MAX) = PANIC THEN "Panic"
    ELSE "ok"

create_user(o) ==
    LET res == create_user_res(o) IN
    IF res = "ok"
    THEN /\ user' = [user EXCEPT ![o] = [NoUser EXCEPT !.open = TRUE]]
         /\ pool' = [pool EXCEPT !.user_stake_count = pool.user_stake_count + 1]
         /\ last' = Outcome("create_user", o, 0, DefaultPubkey)
         /\ UNCHANGED <<now, pool_closed, staking_vault, reward_vault,
                        stake_supply, rt>>
    ELSE Fail

\* ------------------------------------------------------- pause / unpause
\* mutant: the epoch test is not strict
pause_res_at_end(caller) ==
    IF pool_closed THEN "AccountNotInitialized"
    ELSE IF caller # pool.authority THEN "ConstraintHasOne"
    ELSE IF pool.paused THEN "PoolPaused"
    ELSE IF ~(pool.reward_duration_end <= now) THEN "ConstraintRaw"
    ELSE "ok"

pause_res(caller) ==
    IF pool_closed THEN "AccountNotInitialized"
    ELSE IF caller # pool.authority THEN "ConstraintHasOne"
    ELSE IF pool.paused THEN "PoolPaused"
    ELSE IF ~(pool.reward_duration_end < now) THEN "ConstraintRaw"
    ELSE "ok"

pause(caller) ==
    LET res == pause_res(caller) IN
    IF res = "ok"
    THEN /\ pool' = [pool EXCEPT !.paused = TRUE]
         /\ last' = Outcome("pause", caller, 0, DefaultPubkey)
         /\ UNCHANGED <<now, pool_closed, user, staking_vault, reward_vault,
                        stake_supply, rt>>
    ELSE Fail

unpause_res(caller) ==
    IF pool_closed THEN "AccountNotInitialized"
    ELSE IF caller # pool.authority THEN "ConstraintHasOne"
    ELSE IF ~pool.paused THEN "ConstraintRaw"
    ELSE "ok"

unpause(caller) ==
    LET res == unpause_res(caller) IN
    IF res = "ok"
    THEN /\ pool' = [pool EXCEPT !.paused = FALSE]
         /\ last' = Outcome("unpause", caller, 0, DefaultPubkey)
         /\ UNCHANGED <<now, pool_closed, user, staking_vault, reward_vault,
                        stake_supply, rt>>
    ELSE Fail

\* ----------------------------------------------------------------- stake
\* funded: the token program accepts the transfer out of the staker's
\* account (it holds the amount).  No token account can hold more than
\* the mint's supply, which is a u64.
stake_user(o, amount) ==
    LET u == update_rewards(pool, user[o], TRUE, pool.total_staked, now).user
        bal == checked_add(u.balance_staked, amount, U64_MAX)
    IN  [u EXCEPT !.balance_staked = bal,
                  !.maturity_time = checked_add(now, pool.lock_period, U64_MAX),
                  !.tier = IF pool.no_tier = FALSE /\ bal # PANIC
                           THEN get_tier(bal) ELSE u.tier]

\* mutant: the paused check is missing
stake_res_no_pause(o, amount, funded, ts) ==
    IF pool_closed \/ ~user[o].open THEN "AccountNotInitialized"
    ELSE IF amount = 0 THEN "AmountMustBeGreaterThanZero"
    ELSE IF update_rewards(pool, user[o], TRUE, pool.total_staked, now).panic
         THEN "Panic"
    ELSE IF stake_user(o, amount).balance_staked = PANIC THEN "Panic"
    ELSE IF stake_user(o, amount).maturity_time = PANIC THEN "Panic"
    ELSE IF ~funded \/ staking_vault + amount > stake_supply THEN "TransferFailed"
    ELSE IF ts = PANIC THEN "Panic"
    ELSE "ok"

stake_res(o, amount, funded, ts) ==
    IF pool_closed \/ ~user[o].open THEN "AccountNotInitialized"
    ELSE IF amount = 0 THEN "AmountMustBeGreaterThanZero"
    ELSE IF pool.paused THEN "PoolPaused"
    ELSE IF update_rewards(pool, user[o], TRUE, pool.total_staked, now).panic
         THEN "Panic"
    ELSE IF stake_user(o, amount).balance_staked = PANIC THEN "Panic"
    ELSE IF stake_user(o, amount).maturity_time = PANIC THEN "Panic"
    ELSE IF ~funded \/ staking_vault + amount > stake_supply THEN "TransferFailed"
    ELSE IF ts = PANIC THEN "Panic"
    ELSE "ok"

stake(o, amount, funded) ==
    \E ts \in add_assign(pool.total_staked, amount) :
        LET res == stake_res(o, amount, funded, ts)
            upd == update_rewards(pool, user[o], TRUE, pool.total_staked, now)
        IN  IF res = "ok"
            THEN /\ user' = [user EXCEPT ![o] = stake_user(o, amount)]
                 /\ pool' = [upd.pool EXCEPT !.total_staked = ts]
                 /\ staking_vault' = staking_vault + amount
                 /\ last' = Outcome("stake", o, amount, DefaultPubkey)
                 /\ rt' = rt_stake(o, amount)
                 /\ UNCHANGED <<now, pool_closed, reward_vault, stake_supply>>
            ELSE Fail

\* --------------------------------------------------------------- unstake
\* mutant: the record is emptied whatever the amount
unstake_user_clears_balance(o, spt_amount) ==
    LET u == update_rewards(pool, user[o], TRUE, pool.total_staked, now).user
        bal == checked_sub(u.balance_staked, spt_amount)
    IN  [u EXCEPT !.balance_staked = IF bal = PANIC THEN PANIC ELSE 0,
                  !.tier = IF pool.no_tier = FALSE /\ bal # PANIC
                           THEN get_tier(0) ELSE u.tier]

unstake_user(o, spt_amount) ==
    LET u == update_rewards(pool, user[o], TRUE, pool.total_staked, now).user
        bal == checked_sub(u.balance_staked, spt_amount)
    IN  [u EXCEPT !.balance_staked = bal,
                  !.tier = IF pool.no_tier = FALSE /\ bal # PANIC
                           THEN get_tier(bal) ELSE u.tier]

\* mutant: the maturity check rejects the boundary now = maturity_time
unstake_res_strict(o, spt_amount, ts) ==
    IF pool_closed \/ ~user[o].open THEN "AccountNotInitialized"
    ELSE IF spt_amount = 0 THEN "AmountMustBeGreaterThanZero"
    ELSE IF user[o].maturity_time >= now THEN "CannotStakeOrClaimBeforeMaturity"
    ELSE IF user[o].balance_staked < spt_amount THEN "InsufficientFundUnstake"
    ELSE IF update_rewards(pool, user[o], TRUE, pool.total_staked, now).panic
         THEN "Panic"
    ELSE IF unstake_user(o, spt_amount).balance_staked = PANIC THEN "Panic"
    ELSE IF ts = PANIC THEN "Panic"
    ELSE IF staking_vault < spt_amount THEN "TransferFailed"
    ELSE "ok"

unstake_res(o, spt_amount, ts) ==
    IF pool_closed \/ ~user[o].open THEN "AccountNotInitialized"
    ELSE IF spt_amount = 0 THEN "AmountMustBeGreaterThanZero"
    ELSE IF user[o].maturity_time > now THEN "CannotStakeOrClaimBeforeMaturity"
    ELSE IF user[o].balance_staked < spt_amount THEN "InsufficientFundUnstake"
    ELSE IF update_rewards(pool, user[o], TRUE, pool.total_staked, now).panic
         THEN "Panic"
    ELSE IF unstake_user(o, spt_amount).balance_staked = PANIC THEN "Panic"
    ELSE IF ts = PANIC THEN "Panic"
    ELSE IF staking_vault < spt_amount THEN "TransferFailed"
    ELSE "ok"

unstake(o, spt_amount) ==
    \E ts \in sub_assign(pool.total_staked, spt_amount) :
        LET res == unstake_res(o, spt_amount, ts)
            upd == update_rewards(pool, user[o], TRUE, pool.total_staked, now)
        IN  IF res = "ok"
            THEN /\ user' = [user EXCEPT ![o] = unstake_user(o, spt_amount)]
                 /\ pool' = [upd.pool EXCEPT !.total_staked = ts]
                 /\ staking_vault' = staking_vault - spt_amount
                 /\ last' = Outcome("unstake", o, spt_amount, DefaultPubkey)
                 /\ rt' = rt_unstake(o, spt_amount,
                                     user'[o].balance_staked,
                                     pool'.total_staked,
                                     staking_vault - staking_vault')
                 /\ UNCHANGED <<now, pool_closed, reward_vault, stake_supply>>
            ELSE Fail

\* -------------------------------------------------------- FunderRegistry
\* funders.iter().any(|x| *x == key)
funders_any(funders, key) == \E i \in 1..FUNDERS_LEN : funders[i] = key

\* mutant: the last matching index in place of the first
funders_position_last(funders, key) ==
    IF funders_any(funders, key)
    THEN CHOOSE i \in 1..FUNDERS_LEN :
            /\ funders[i] = key
            /\ \A j \in (i + 1)..FUNDERS_LEN : funders[j] # key
    ELSE 0

\* funders.iter().position(|x| *x == key): first index, 0 for None
funders_position(funders, key) ==
    IF funders_any(funders, key)
    THEN CHOOSE i \in 1..FUNDERS_LEN :
            /\ funders[i] = key
            /\ \A j \in 1..(i - 1) : funders[j] # key
    ELSE 0

\* mutant: the check for a key that is already present is missing
authorize_funder_res_no_dup(caller, funder_to_add) ==
    IF pool_closed THEN "AccountNotInitialized"
    ELSE IF caller # pool.authority THEN "ConstraintHasOne"
    ELSE IF funder_to_add = pool.authority THEN "FunderAlreadyAuthorized"
    ELSE IF funders_position(pool.funders, DefaultPubkey) = 0 THEN "MaxFunders"
    ELSE "ok"

authorize_funder_res(caller, funder_to_add) ==
    IF pool_closed THEN "AccountNotInitialized"
    ELSE IF caller # pool.authority THEN "ConstraintHasOne"
    ELSE IF funder_to_add = pool.authority THEN "FunderAlreadyAuthorized"
    ELSE IF funders_any(pool.funders, funder_to_add) THEN "FunderAlreadyAuthorized"
    ELSE IF funders_position(pool.funders, DefaultPubkey) = 0 THEN "MaxFunders"
    ELSE "ok"

authorize_funder(caller, funder_to_add) ==
    LET res == authorize_funder_res(caller, funder_to_add)
        idx == funders_position(pool.funders, DefaultPubkey)
    IN  IF res = "ok"
        THEN /\ pool' = [pool EXCEPT !.funders[idx] = funder_to_add]
             /\ last' = Outcome("authorize_funder", caller, 0, funder_to_add)
             /\ UNCHANGED <<now, pool_closed, user, staking_vault, reward_vault,
                            stake_supply, rt>>
        ELSE Fail

deauthorize_funder_res(caller, funder_to_remove) ==
    IF pool_closed THEN "AccountNotInitialized"
    ELSE IF caller # pool.authority THEN "ConstraintHasOne"
    ELSE IF funder_to_remove = pool.authority THEN "CannotDeauthorizePoolAuthority"
    ELSE IF funders_position(pool.funders, funder_to_remove) = 0
         THEN "CannotDeauthorizeMissingAuthority"
    ELSE "ok"

deauthorize_funder(caller, funder_to_remove) ==
    LET res == deauthorize_funder_res(caller, funder_to_remove)
        idx == funders_position(pool.funders, funder_to_remove)
    IN  IF res = "ok"
        THEN /\ pool' = [pool EXCEPT !.funders[idx] = DefaultPubkey]
             /\ last' = Outcome("deauthorize_funder", caller, 0, funder_to_remove)
             /\ UNCHANGED <<now, pool_closed, user, staking_vault, reward_vault,
                            stake_supply, rt>>
        ELSE Fail

\* ------------------------------------------------------ FundingScheduler
\* mutant: the constraint on the signer is missing
fund_authorized_anyone(p, funder) == TRUE

\* The Fund accounts constraint on the signer.
fund_authorized(p, funder) ==
    funder = p.authority \/ funders_any(p.funders, funder)

\* mutant: the leftover of the running epoch is forgotten
fund_reward_rate_no_leftover(p, amount, current_time) ==
    checked_div(amount, p.reward_duration)

\* reward_rate after fund(amount) at current_time, on the checkpointed pool
fund_reward_rate(p, amount, current_time) ==
    IF current_time >= p.reward_duration_end
    THEN checked_div(amount, p.reward_duration)
    ELSE LET remaining == checked_sub(p.reward_duration_end, current_time)
             leftover == checked_mul(remaining, p.reward_rate, U64_MAX)
         IN  checked_div(checked_add(amount, leftover, U64_MAX),
                         p.reward_duration)

\* mutant: the constraint on paused is missing
fund_res_no_pause(caller, amount, funded) ==
    LET upd == update_rewards(pool, NoUser, FALSE, pool.total_staked, now) IN
    IF pool_closed THEN "AccountNotInitialized"
    ELSE IF ~fund_authorized(pool, caller) THEN "ConstraintRaw"
    ELSE IF upd.panic THEN "Panic"
    ELSE IF fund_reward_rate(upd.pool, amount, now) = PANIC THEN "Panic"
    ELSE IF amount > 0 /\ (~funded \/ reward_vault + amount > RewardSupply)
         THEN "TransferFailed"
    ELSE IF checked_add(now, pool.reward_duration, U64_MAX) = PANIC THEN "Panic"
    ELSE "ok"

fund_res(caller, amount, funded) ==
    LET upd == update_rewards(pool, NoUser, FALSE, pool.total_staked, now) IN
    IF pool_closed THEN "AccountNotInitialized"
    ELSE IF pool.paused THEN "PoolPaused"
    ELSE IF ~fund_authorized(pool, caller) THEN "ConstraintRaw"
    ELSE IF upd.panic THEN "Panic"
    ELSE IF fund_reward_rate(upd.pool, amount, now) = PANIC THEN "Panic"
    ELSE IF amount > 0 /\ (~funded \/ reward_vault + amount > RewardSupply)
         THEN "TransferFailed"
    ELSE IF checked_add(now, pool.reward_duration, U64_MAX) = PANIC THEN "Panic"
    ELSE "ok"

fund(caller, amount, funded) ==
    LET res == fund_res(caller, amount, funded)
        upd == update_rewards(pool, NoUser, FALSE, pool.total_staked, now)
    IN  IF res = "ok"
        THEN /\ pool' = [upd.pool EXCEPT
                    !.reward_rate = fund_reward_rate(upd.pool, amount, now),
                    !.last_update_time = now,
                    !.reward_duration_end = now + pool.reward_duration]
             /\ reward_vault' = reward_vault + amount
             /\ last' = Outcome("fund", caller, amount, DefaultPubkey)
             /\ UNCHANGED <<now, pool_closed, user, staking_vault,
                            stake_supply, rt>>
        ELSE Fail

\* ----------------------------------------------------------------- claim
\* payout of claim: pending after the checkpoint, clamped to the vault
claim_reward_amount(pending, vault_balance) ==
    IF vault_balance < pending THEN vault_balance ELSE pending

\* mutant: pending is not zeroed
claim_user_keeps_pending(o) ==
    update_rewards(pool, user[o], TRUE, pool.total_staked, now).user

\* the User account after claim: checkpointed, pending zeroed (it is zero
\* already when the checkpoint leaves nothing pending)
claim_user(o) ==
    LET u == update_rewards(pool, user[o], TRUE, pool.total_staked, now).user
    IN  IF u.reward_per_token_pending > 0
        THEN [u EXCEPT !.reward_per_token_pending = 0]
        ELSE u

claim_res(o) ==
    IF pool_closed \/ ~user[o].open THEN "AccountNotInitialized"
    ELSE IF user[o].maturity_time > now THEN "CannotStakeOrClaimBeforeMaturity"
    ELSE IF update_rewards(pool, user[o], TRUE, pool.total_staked, now).panic
         THEN "Panic"
    ELSE "ok"

claim(o) ==
    LET res == claim_res(o)
        upd == update_rewards(pool, user[o], TRUE, pool.total_staked, now)
        pending == upd.user.reward_per_token_pending
    IN  IF res = "ok"
        THEN /\ pool' = upd.pool
             /\ user' = [user EXCEPT ![o] = claim_user(o)]
             /\ reward_vault' =
                    reward_vault - claim_reward_amount(pending, reward_vault)
             /\ last' = Outcome("claim", o, 0, DefaultPubkey)
             /\ UNCHANGED <<now, pool_closed, staking_vault, stake_supply, rt>>
        ELSE Fail

\* ------------------------------------------------------------ close_user
\* mutant: the constraint on reward_per_token_pending is missing
close_user_res_no_pending(o) ==
    IF pool_closed \/ ~user[o].open THEN "AccountNotInitialized"
    ELSE IF user[o].balance_staked # 0 THEN "ConstraintRaw"
    ELSE IF checked_sub(pool.user_stake_count, 1) = PANIC THEN "Panic"
    ELSE "ok"

close_user_res(o) ==
    IF pool_closed \/ ~user[o].open THEN "AccountNotInitialized"
    ELSE IF user[o].balance_staked # 0 THEN "ConstraintRaw"
    ELSE IF user[o].reward_per_token_pending # 0 THEN "ConstraintRaw"
    ELSE IF checked_sub(pool.user_stake_count, 1) = PANIC THEN "Panic"
    ELSE "ok"

\* mutant: user_stake_count is not decremented
close_user_keeps_count(o) ==
    LET res == close_user_res(o) IN
    IF res = "ok"
    THEN /\ user' = [user EXCEPT ![o] = NoUser]
         /\ last' = Outcome("close_user", o, 0, DefaultPubkey)
         /\ UNCHANGED <<now, pool, pool_closed, staking_vault, reward_vault,
                        stake_supply, rt>>
    ELSE Fail

close_user(o) ==
    LET res == close_user_res(o) IN
    IF res = "ok"
    THEN /\ pool' = [pool EXCEPT !.user_stake_count = pool.user_stake_count - 1]
         /\ user' = [user EXCEPT ![o] = NoUser]
         /\ last' = Outcome("close_user", o, 0, DefaultPubkey)
         /\ UNCHANGED <<now, pool_closed, staking_vault, reward_vault,
                        stake_supply, rt>>
    ELSE Fail

\* ------------------------------------------------------------ close_pool
\* mutant: the constraint on user_stake_count is missing
close_pool_res_no_count(caller) ==
    IF pool_closed THEN "AccountNotInitialized"
    ELSE IF caller # pool.authority THEN "ConstraintHasOne"
    ELSE IF ~pool.paused THEN "ConstraintRaw"
    ELSE IF ~(pool.reward_duration_end > 0) THEN "ConstraintRaw"
    ELSE IF ~(pool.reward_duration_end < now) THEN "ConstraintRaw"
    ELSE IF pool.total_staked # 0 THEN "ConstraintRaw"
    ELSE "ok"

close_pool_res(caller) ==
    IF pool_closed THEN "AccountNotInitialized"
    ELSE IF caller # pool.authority THEN "ConstraintHasOne"
    ELSE IF ~pool.paused THEN "ConstraintRaw"
    ELSE IF ~(pool.reward_duration_end > 0) THEN "ConstraintRaw"
    ELSE IF ~(pool.reward_duration_end < now) THEN "ConstraintRaw"
    ELSE IF pool.user_stake_count # 0 THEN "ConstraintRaw"
    ELSE IF pool.total_staked # 0 THEN "ConstraintRaw"
    ELSE "ok"

\* Both vaults are swept to the refundees and closed, then the Pool
\* account is closed.
close_pool(caller) ==
    LET res == close_pool_res(caller) IN
    IF res = "ok"
    THEN /\ pool_closed' = TRUE
         /\ staking_vault' = 0
         /\ reward_vault' = 0
         /\ last' = Outcome("close_pool", caller, 0, DefaultPubkey)
         /\ UNCHANGED <<now, pool, user, stake_supply, rt>>
    ELSE Fail

\* ------------------------------------------------------------------ Next
\* One step of the program with the instruction inputs drawn from the
\* given sets: owners signing, stake/unstake amounts, fund amounts,
\* signers of the administrative and funding instructions, funder keys.
DoCreateUser(owners) == \E o \in owners : create_user(o)
DoPause(admins) == \E c \in admins : pause(c)
DoUnpause(admins) == \E c \in admins : unpause(c)
DoStake(owners, amts) ==
    \E o \in owners, a \in amts, f \in BOOLEAN : stake(o, a, f)
DoUnstake(owners, amts) == \E o \in owners, a \in amts : unstake(o, a)
DoAuthorizeFunder(admins, keys) ==
    \E c \in admins, k \in keys : authorize_funder(c, k)
DoDeauthorizeFunder(admins, keys) ==
    \E c \in admins, k \in keys : deauthorize_funder(c, k)
DoFund(admins, amts) ==
    \E c \in admins, a \in amts, f \in BOOLEAN : fund(c, a, f)
DoClaim(owners) == \E o \in owners : claim(o)
DoCloseUser(owners) == \E o \in owners : close_user(o)
DoClosePool(admins) == \E c \in admins : close_pool(c)

\* Instruction inputs.
StakeAmounts == 0..MaxStake
Admins == {Authority, Funder1}

\* The pool specification: two stakers, funding by the authority; the
\* funder registry stays empty.
Next ==
    \/ Tick
    \/ DoCreateUser(Owners)
    \/ DoPause(Admins)
    \/ DoUnpause(Admins)
    \/ DoStake(Owners, StakeAmounts)
    \/ DoUnstake(Owners, StakeAmounts)
    \/ DoFund({Authority}, {U64_MAX - 2})
    \/ DoClaim(Owners)
    \/ DoCloseUser(Owners)
    \/ DoClosePool(Admins)

Spec == Init /\ [][Next]_vars

\* One staker; funding by the authority and by a registered funder with
\* amounts from nothing to the whole reward supply.
NextSolo ==
    \/ Tick
    \/ DoCreateUser({2})
    \/ DoPause(Admins)
    \/ DoUnpause(Admins)
    \/ DoStake({2}, StakeAmounts)
    \/ DoUnstake({2}, StakeAmounts)
    \/ DoAuthorizeFunder(Admins, {Funder1})
    \/ DoDeauthorizeFunder(Admins, {Funder1})
    \/ DoFund(Admins, {0, U64_MAX})
    \/ DoClaim({2})
    \/ DoCloseUser({2})
    \/ DoClosePool(Admins)

SpecSolo == Init /\ [][NextSolo]_vars

\* The funder registry alone: every key as candidate.
NextFunders ==
    \/ DoAuthorizeFunder(Admins, AllKeys)
    \/ DoDeauthorizeFunder(Admins, AllKeys)

SpecFunders == Init /\ [][NextFunders]_vars

\* Two stakers that together hold the whole supply of the staking mint,
\* one staking U64_MAX - 1 at a time and one staking 1; funding by the
\* authority with the whole reward supply.
NextWide ==
    \/ Tick
    \/ DoCreateUser(Owners)
    \/ DoStake({2}, {U64_MAX - 1})
    \/ DoStake({3}, {1})
    \/ DoUnstake({2}, {U64_MAX - 1})
    \/ DoUnstake({3}, {1})
    \/ DoFund({Authority}, {U64_MAX})
    \/ DoClaim(Owners)

SpecWide == InitWide /\ [][NextWide]_vars

\* Two stakers staking and unstaking every amount the supply allows; no
\* funding (the round trip is about balances, not rewards).
NextRoundTrip ==
    \/ Tick
    \/ DoCreateUser(Owners)
    \/ DoStake(Owners, 1..StakeSupply)
    \/ DoUnstake(Owners, 1..StakeSupply)

SpecRoundTrip == InitRoundTrip /\ [][NextRoundTrip]_vars

\* The user records of two stakers over the life of a pool that is never
\* funded: opened, staked, unstaked, closed, and the pool paused.
NextAccounts ==
    \/ Tick
    \/ DoCreateUser(Owners)
    \/ DoStake(Owners, StakeAmounts)
    \/ DoUnstake(Owners, StakeAmounts)
    \/ DoCloseUser(Owners)
    \/ DoPause({Authority})
    \/ DoUnpause({Authority})

SpecAccounts == Init /\ [][NextAccounts]_vars

\* ================================================================ claims
RECURSIVE SumStaked(_)
SumStaked(S) ==
    IF S = {} THEN 0
    ELSE LET o == CHOOSE x \in S : TRUE
         IN  (IF user[o].open THEN user[o].balance_staked ELSE 0)
             + SumStaked(S \ {o})

OpenUsers == {o \in Owners : user[o].open}

\* C1: in every reachable state Pool.total_staked equals the sum of
\* balance_staked over the open User records of the pool.
C1_TotalStakedIsSum == pool.total_staked = SumStaked(Owners)

\* both stakers hold a stake and one of them has just unstaked part of its own
C1_Witness ==
    /\ last.op = "unstake"
    /\ \A o \in Owners : user[o].open
    /\ \E o \in Owners : user[o].balance_staked > 0
    /\ pool.total_staked > 0

\* C2: reward_per_token_stored never decreases in any step.
C2_StoredNeverDecreases ==
    [][pool'.reward_per_token_stored >= pool.reward_per_token_stored]_vars

\* the accumulator has advanced in two different checkpoints
C2_Witness ==
    /\ pool.reward_per_token_stored > 0
    /\ \E o \in Owners :
          /\ user[o].open
          /\ user[o].reward_per_token_complete > 0
          /\ user[o].reward_per_token_complete < pool.reward_per_token_stored

\* C3: every open user's reward_per_token_complete is at most the pool's
\* reward_per_token_stored, and right after a successful stake, unstake
\* or claim of a user the two are equal.
C3_SnapshotBelowStored ==
    /\ \A o \in OpenUsers :
          user[o].reward_per_token_complete <= pool.reward_per_token_stored
    /\ last.op \in {"stake", "unstake", "claim"} =>
          user[last.who].reward_per_token_complete = pool.reward_per_token_stored

\* a user has just claimed at a positive accumulator while the other
\* user's snapshot lags behind
C3_Witness ==
    /\ last.op = "claim"
    /\ user[last.who].reward_per_token_complete > 0
    /\ \E o \in OpenUsers :
          user[o].reward_per_token_complete < pool.reward_per_token_stored

\* C4: a successful stake at time t sets maturity_time to t + lock_period;
\* unstake with a non-zero amount and claim fail with the maturity error
\* exactly when now < maturity_time.
C4_Maturity ==
    /\ last.op = "stake" =>
          user[last.who].maturity_time = now + pool.lock_period
    /\ ~pool_closed =>
          \A o \in OpenUsers :
             /\ claim_res(o) = "CannotStakeOrClaimBeforeMaturity"
                   <=> now < user[o].maturity_time
             /\ \A a \in 1..U64_MAX :
                   \A ts \in sub_assign(pool.total_staked, a) :
                      unstake_res(o, a, ts) = "CannotStakeOrClaimBeforeMaturity"
                         <=> now < user[o].maturity_time

\* an unstake has just succeeded exactly at now = maturity_time, with a
\* lock period that is not zero
C4_Witness ==
    /\ last.op = "unstake"
    /\ pool.lock_period > 0
    /\ user[last.who].maturity_time = now

\* C5 as stated: while paused, every stake call and every fund call, with
\* any amount, fails with PoolPaused.
C5_Original ==
    (pool.paused /\ ~pool_closed) =>
        /\ \A o \in OpenUsers, a \in 0..U64_MAX, f \in BOOLEAN :
              \A ts \in add_assign(pool.total_staked, a) :
                 stake_res(o, a, f, ts) = "PoolPaused"
        /\ \A c \in Signers, a \in 0..U64_MAX, f \in BOOLEAN :
              fund_res(c, a, f) = "PoolPaused"

\* C5 (amended): while paused, every stake call and every fund call fails
\* (and a failed instruction changes nothing); every fund call fails with
\* PoolPaused, and a stake call of an open user fails with PoolPaused when
\* its amount is not zero, with AmountMustBeGreaterThanZero when it is.
C5_PausedBlocksStakeAndFund ==
    (pool.paused /\ ~pool_closed) =>
        /\ \A o \in Owners, a \in 0..U64_MAX, f \in BOOLEAN :
              \A ts \in add_assign(pool.total_staked, a) :
                 /\ stake_res(o, a, f, ts) # "ok"
                 /\ (user[o].open /\ a > 0) =>
                        stake_res(o, a, f, ts) = "PoolPaused"
                 /\ (user[o].open /\ a = 0) =>
                        stake_res(o, a, f, ts) = "AmountMustBeGreaterThanZero"
        /\ \A c \in Signers, a \in 0..U64_MAX, f \in BOOLEAN :
              fund_res(c, a, f) = "PoolPaused"

\* the pool is paused while a staker with an open record and a stake is
\* present and a funder is registered
C5_Witness ==
    /\ pool.paused /\ ~pool_closed
    /\ \E o \in OpenUsers : user[o].balance_staked > 0
    /\ funders_any(pool.funders, Funder1)

\* C6 as stated: in every state of a pool that is not closed, every open
\* user can unstake any 0 < amount <= balance_staked once now >=
\* maturity_time, and can claim once now >= maturity_time.
C6_StakersCanExit ==
    ~pool_closed =>
        \A o \in OpenUsers :
            now >= user[o].maturity_time =>
                /\ claim_res(o) = "ok"
                /\ \A a \in 1..user[o].balance_staked :
                      \A ts \in sub_assign(pool.total_staked, a) :
                         unstake_res(o, a, ts) = "ok"

\* A claim step against its pre-state (part of C7).
C7_Step ==
    (last'.op = "claim") =>
        LET o == last'.who
            upd == update_rewards(pool, user[o], TRUE, pool.total_staked, now)
            pending == upd.user.reward_per_token_pending
        IN  /\ reward_vault - reward_vault' = Min(pending, reward_vault)
            /\ user'[o].reward_per_token_pending = 0
            /\ user'[o].balance_staked = user[o].balance_staked
            /\ user'[o].maturity_time = user[o].maturity_time
            /\ pool'.total_staked = pool.total_staked

\* claim depends on maturity and the checkpoint only, not on the vault
\* balance (part of C7).
C7_NoShortfallFailure ==
    ~pool_closed =>
        \A o \in OpenUsers :
            LET upd == update_rewards(pool, user[o], TRUE, pool.total_staked, now)
            IN  (now >= user[o].maturity_time /\ ~upd.panic) =>
                    claim_res(o) = "ok"

C8_Step ==
    (last'.op = "fund") =>
        LET amount == last'.amount
            d == pool.reward_duration
        IN  /\ pool'.reward_rate =
                  IF now >= pool.reward_duration_end
                  THEN amount \div d
                  ELSE (amount + (pool.reward_duration_end - now)
                                    * pool.reward_rate) \div d
            /\ pool'.last_update_time = now
            /\ pool'.reward_duration_end = now + d
            /\ reward_vault' = reward_vault + amount

\* C8: a successful fund(amount) at time now sets reward_rate to
\* floor(amount / reward_duration) when now >= reward_duration_end, and to
\* floor((amount + (reward_duration_end - now) * reward_rate) /
\* reward_duration) otherwise; it sets last_update_time = now and
\* reward_duration_end = now + reward_duration and adds amount to the
\* reward vault.
C8_FundSchedule == [][C8_Step]_vars

\* a fund of nothing has just extended a running epoch: the rate 1 is the
\* floor of the leftover of the earlier funding over the duration
C8_Witness ==
    /\ last.op = "fund"
    /\ last.amount = 0
    /\ pool.reward_duration = 2
    /\ pool.reward_rate = 1
    /\ reward_vault = U64_MAX

\* C9: fund succeeds only for the pool authority or a key that is in
\* Pool.funders at the time of the call.
C9_FundNeedsAuthorization ==
    /\ ~pool_closed =>
          \A c \in Signers, a \in 0..U64_MAX, f \in BOOLEAN :
              fund_res(c, a, f) = "ok" =>
                  (c = pool.authority \/ \E i \in 1..FUNDERS_LEN : pool.funders[i] = c)
    /\ last.op = "fund" =>
          (last.who = pool.authority
              \/ \E i \in 1..FUNDERS_LEN : pool.funders[i] = last.who)

\* a funder that funded the pool has just been deauthorized, and its next
\* fund call is rejected
C9_Witness ==
    /\ last.op = "deauthorize_funder"
    /\ last.key = Funder1
    /\ reward_vault > 0
    /\ ~pool.paused /\ ~pool_closed
    /\ fund_res(Funder1, 0, TRUE) = "ConstraintRaw"

\* C10: Pool.funders never contains the authority, never contains the
\* same non-sentinel key in two slots, never holds more than 5 keys.
C10_FundersWellFormed ==
    /\ \A i \in DOMAIN pool.funders : pool.funders[i] # pool.authority
    /\ \A i, j \in DOMAIN pool.funders :
          (i # j /\ pool.funders[i] = pool.funders[j]) =>
              pool.funders[i] = DefaultPubkey
    /\ Cardinality({i \in DOMAIN pool.funders :
                        pool.funders[i] # DefaultPubkey}) <= 5

\* all five slots are taken, not in the order of the keys
C10_Witness ==
    /\ last.op = "authorize_funder"
    /\ \A i \in 1..FUNDERS_LEN : pool.funders[i] # DefaultPubkey
    /\ \E i \in 1..(FUNDERS_LEN - 1) : pool.funders[i] > pool.funders[i + 1]

\* close_pool succeeds exactly in these states, and a closed pool has no
\* open record and no stake (part of C11).
C11_Guard ==
    /\ ~pool_closed =>
          \A c \in Signers :
              close_pool_res(c) = "ok" <=>
                  /\ c = pool.authority
                  /\ pool.paused
                  /\ pool.reward_duration_end > 0
                  /\ pool.reward_duration_end < now
                  /\ pool.user_stake_count = 0
                  /\ pool.total_staked = 0
    /\ pool_closed => (OpenUsers = {} /\ SumStaked(Owners) = 0)

\* A step that destroys the pool, against its pre-state (part of C11).
C11_Step ==
    (pool_closed' /\ ~pool_closed) =>
        /\ last'.op = "close_pool" /\ last'.who = pool.authority
        /\ pool.paused
        /\ pool.reward_duration_end > 0 /\ pool.reward_duration_end < now
        /\ pool.user_stake_count = 0 /\ pool.total_staked = 0
        /\ staking_vault = 0

\* C11: close_pool succeeds only for the authority on a paused pool with
\* reward_duration_end > 0, reward_duration_end < now, user_stake_count = 0
\* and total_staked = 0; a pool is never destroyed while a user record is
\* open or a stake is held.
C11_ClosePoolGuard == []C11_Guard /\ [][C11_Step]_vars

\* the pool has just been closed after rewards had been distributed
C11_Witness ==
    /\ last.op = "close_pool"
    /\ pool_closed
    /\ pool.reward_per_token_stored > 0

\* A close_user step against its pre-state (part of C12).
C12_Step ==
    /\ (last'.op = "close_user") =>
          /\ user[last'.who].balance_staked = 0
          /\ user[last'.who].reward_per_token_pending = 0
          /\ ~user'[last'.who].open
          /\ pool'.user_stake_count = pool.user_stake_count - 1
    /\ \A o \in Owners :
          (user[o].open /\ ~user'[o].open) =>
              /\ last'.op = "close_user" /\ last'.who = o
              /\ user[o].balance_staked = 0
              /\ user[o].reward_per_token_pending = 0

\* close_user is refused unless balance and pending are zero (part of C12).
C12_Guard ==
    ~pool_closed =>
        \A o \in Owners :
            close_user_res(o) = "ok" =>
                /\ user[o].open
                /\ user[o].balance_staked = 0
                /\ user[o].reward_per_token_pending = 0

\* C12: close_user succeeds only for a user record with balance_staked = 0
\* and reward_per_token_pending = 0, and then removes the record and
\* decrements user_stake_count; no record holding a stake or a recorded
\* reward is destroyed.
C12_CloseUserGuard == []C12_Guard /\ [][C12_Step]_vars

\* a user has unstaked everything, still has a pending reward, and its
\* close_user is refused
C12_Witness ==
    /\ last.op = "unstake"
    /\ user[last.who].balance_staked = 0
    /\ user[last.who].reward_per_token_pending > 0
    /\ close_user_res(last.who) = "ConstraintRaw"

\* pause and unpause succeed exactly in these states (part of C13).
C13_Guards ==
    ~pool_closed =>
        \A c \in Signers :
            /\ pause_res(c) = "ok" <=>
                  (c = pool.authority /\ ~pool.paused
                      /\ pool.reward_duration_end < now)
            /\ unpause_res(c) = "ok" <=> (c = pool.authority /\ pool.paused)

\* No instruction succeeds on a closed pool (part of C13).
C13_ClosedIsDead ==
    pool_closed =>
        /\ \A c \in Signers :
              /\ pause_res(c) # "ok"
              /\ unpause_res(c) # "ok"
              /\ close_pool_res(c) # "ok"
              /\ \A k \in AllKeys :
                    /\ authorize_funder_res(c, k) # "ok"
                    /\ deauthorize_funder_res(c, k) # "ok"
              /\ \A a \in 0..U64_MAX, f \in BOOLEAN : fund_res(c, a, f) # "ok"
        /\ \A o \in Owners :
              /\ create_user_res(o) # "ok"
              /\ claim_res(o) # "ok"
              /\ close_user_res(o) # "ok"
              /\ \A a \in 0..U64_MAX, f \in BOOLEAN :
                    /\ \A ts \in add_assign(pool.total_staked, a) :
                          stake_res(o, a, f, ts) # "ok"
                    /\ \A ts \in sub_assign(pool.total_staked, a) :
                          unstake_res(o, a, ts) # "ok"

\* The transitions of the lifecycle (part of C13): paused changes by pause
\* and unpause only, the pool is closed from Paused only, and a closed pool
\* stays closed with its records as they are.
C13_Step ==
    /\ (pool'.paused # pool.paused) =>
          (last'.op = IF pool.paused THEN "unpause" ELSE "pause")
    /\ (pool_closed' /\ ~pool_closed) =>
          (pool.paused /\ last'.op = "close_pool")
    /\ pool_closed =>
          (pool_closed' /\ UNCHANGED <<pool, user, staking_vault, reward_vault>>)

\* C13: the pool goes Active -> Paused -> Active or Closed only: pause
\* succeeds only for the authority, when not paused and reward_duration_end
\* < now (strictly); unpause only for the authority, when paused; Closed is
\* reached from Paused only and no instruction succeeds on a closed pool.
C13_Lifecycle == []C13_Guards /\ []C13_ClosedIsDead /\ [][C13_Step]_vars

\* an epoch has been funded and now = reward_duration_end: the authority's
\* pause is refused
C13_Witness ==
    /\ ~pool_closed /\ ~pool.paused
    /\ pool.reward_duration_end > 0
    /\ now = pool.reward_duration_end
    /\ pause_res(pool.authority) = "ConstraintRaw"

\* C14 as stated: for an owner without an open record create_user succeeds
\* whether the pool is paused or not.
C14_Original ==
    ~pool_closed =>
        \A o \in Owners : ~user[o].open => create_user_res(o) = "ok"

\* create_user needs a pool that is not paused (part of C14).
C14_Guard ==
    ~pool_closed =>
        \A o \in Owners :
            ~user[o].open =>
                /\ pool.paused => create_user_res(o) = "PoolPaused"
                /\ create_user_res(o) = "ok" <=>
                      (~pool.paused /\ pool.user_stake_count < U32_MAX)

\* A create_user step against its pre-state (part of C14).
C14_Step ==
    (last'.op = "create_user") =>
        /\ ~pool.paused
        /\ ~user[last'.who].open
        /\ user'[last'.who] = [open |-> TRUE, reward_per_token_complete |-> 0,
                               reward_per_token_pending |-> 0,
                               balance_staked |-> 0, maturity_time |-> 0,
                               tier |-> 0]
        /\ pool'.user_stake_count = pool.user_stake_count + 1

\* C14 (amended): create_user is allowed only while the pool is not paused:
\* for an owner without an open record it succeeds when paused is false
\* (and user_stake_count is below u32::MAX), creates a record with all
\* fields zero and adds exactly 1 to user_stake_count; while paused it
\* fails with PoolPaused.
C14_CreateUserNeedsActive == []C14_Guard /\ [][C14_Step]_vars

\* the pool is paused with one record open, and the create_user of an
\* owner without a record is refused with PoolPaused
C14_Witness ==
    /\ pool.paused /\ ~pool_closed
    /\ pool.user_stake_count = 1
    /\ \E o \in Owners : ~user[o].open /\ create_user_res(o) = "PoolPaused"

\* The instruction recorded in l succeeds in the current state (part of C15).
C15_Succeeds(l) ==
    CASE l.op = "create_user" -> create_user_res(l.who) = "ok"
      [] l.op = "pause" -> pause_res(l.who) = "ok"
      [] l.op = "unpause" -> unpause_res(l.who) = "ok"
      [] l.op = "stake" ->
            \E f \in BOOLEAN, ts \in add_assign(pool.total_staked, l.amount) :
                stake_res(l.who, l.amount, f, ts) = "ok"
      [] l.op = "unstake" ->
            \E ts \in sub_assign(pool.total_staked, l.amount) :
                unstake_res(l.who, l.amount, ts) = "ok"
      [] l.op = "authorize_funder" -> authorize_funder_res(l.who, l.key) = "ok"
      [] l.op = "deauthorize_funder" ->
            deauthorize_funder_res(l.who, l.key) = "ok"
      [] l.op = "fund" ->
            \E f \in BOOLEAN : fund_res(l.who, l.amount, f) = "ok"
      [] l.op = "claim" -> claim_res(l.who) = "ok"
      [] l.op = "close_user" -> close_user_res(l.who) = "ok"
      [] l.op = "close_pool" -> close_pool_res(l.who) = "ok"
      [] OTHER -> FALSE

\* A step that changes a pool field, a user field, a vault balance or the
\* existence of the pool is an instruction that succeeded (part of C15).
C15_Step ==
    (<<pool, pool_closed, user, staking_vault, reward_vault>>' #
        <<pool, pool_closed, user, staking_vault, reward_vault>>)
        => C15_Succeeds(last')

C17_Checkpoint ==
    (~pool_closed /\ pool.total_staked = 0) =>
        \A o \in Owners, w \in BOOLEAN :
            LET upd == update_rewards(pool, user[o], w, pool.total_staked, now)
            IN  /\ ~upd.panic
                /\ upd.pool.reward_per_token_stored
                       = pool.reward_per_token_stored
                /\ upd.pool.last_update_time
                       = Min(now, pool.reward_duration_end)
                /\ upd.user.reward_per_token_pending
                       = user[o].reward_per_token_pending

\* A stake, claim or fund step from a state with total_staked = 0 (part of
\* C17); fund then sets last_update_time to now.
C17_Step ==
    (pool.total_staked = 0 /\ last'.op \in {"stake", "claim", "fund"}) =>
        /\ pool'.reward_per_token_stored = pool.reward_per_token_stored
        /\ last'.op \in {"stake", "claim"} =>
              pool'.last_update_time = Min(now, pool.reward_duration_end)
        /\ last'.op = "stake" =>
              user'[last'.who].reward_per_token_pending
                  = user[last'.who].reward_per_token_pending

\* C17: a checkpoint taken while total_staked = 0 leaves
\* reward_per_token_stored unchanged and sets last_update_time to
\* min(now, reward_duration_end); the reward of the unstaked interval is
\* credited to nobody.
C17_EmptyPoolCheckpoint == []C17_Checkpoint /\ [][C17_Step]_vars

\* the first stake arrives in the middle of a funded epoch: the interval
\* since the fund is skipped
C17_Witness ==
    /\ last.op = "stake"
    /\ pool.total_staked = last.amount
    /\ pool.reward_rate > 0
    /\ now > 0 /\ now < pool.reward_duration_end
    /\ pool.last_update_time = now
    /\ pool.reward_per_token_stored = 0
    /\ user[last.who].reward_per_token_pending = 0

\* The result of authorize_funder called by the authority (part of C19).
C19_Guard ==
    ~pool_closed =>
        \A k \in AllKeys :
            LET r == authorize_funder_res(pool.authority, k)
                full == \A i \in 1..FUNDERS_LEN :
                            pool.funders[i] # DefaultPubkey
            IN  IF k = pool.authority \/ funders_any(pool.funders, k)
                THEN r = "FunderAlreadyAuthorized"
                ELSE IF full THEN r = "MaxFunders"
                ELSE r = "ok"

\* An authorize_funder step against its pre-state (part of C19); a step
\* that is not an authorize_funder adds no key.
C19_Step ==
    /\ (last'.op = "authorize_funder") =>
          /\ last'.key # pool.authority
          /\ ~funders_any(pool.funders, last'.key)
          /\ \E i \in 1..FUNDERS_LEN :
                /\ pool.funders[i] = DefaultPubkey
                /\ \A j \in 1..(i - 1) : pool.funders[j] # DefaultPubkey
                /\ pool' = [pool EXCEPT !.funders[i] = last'.key]
    /\ (last'.op # "authorize_funder") =>
          \A i \in 1..FUNDERS_LEN :
              pool'.funders[i] \in {pool.funders[i], DefaultPubkey}

\* C19: authorize_funder(candidate) fails, funders unchanged, when candidate
\* is the authority or already in funders; otherwise it fails with
\* MaxFunders when all 5 slots are taken; otherwise it writes candidate
\* into the first empty slot and changes nothing else of the pool.
C19_AuthorizeFunder == []C19_Guard /\ [][C19_Step]_vars

\* a key has just been written into slot 2, the lowest empty slot, between
\* two taken slots
C19_Witness ==
    /\ last.op = "authorize_funder"
    /\ pool.funders[2] = last.key
    /\ pool.funders[1] # DefaultPubkey
    /\ pool.funders[3] # DefaultPubkey
    /\ pool.funders[5] = DefaultPubkey

\* A deauthorize_funder step against its pre-state (part of C20).
C20_Step ==
    (last'.op = "deauthorize_funder") =>
        /\ last'.key # pool.authority
        /\ last'.key # DefaultPubkey
        /\ \E i \in 1..FUNDERS_LEN :
              /\ pool.funders[i] = last'.key
              /\ pool' = [pool EXCEPT !.funders[i] = DefaultPubkey]

\* C20: deauthorize_funder(candidate) succeeds only for a candidate that is
\* an authorized funder (not the authority, not the empty-slot sentinel,
\* held by a slot) and then empties exactly that slot; for every other
\* candidate it fails.
C20_DeauthorizeOnlyFunders == [][C20_Step]_vars

\* Every numeric field is inside the range of its type (part of C16).
C16_Range ==
    /\ pool.total_staked \in 0..U64_MAX
    /\ pool.reward_rate \in 0..U64_MAX
    /\ pool.last_update_time \in 0..U64_MAX
    /\ pool.reward_duration_end \in 0..U64_MAX
    /\ pool.reward_per_token_stored \in 0..U128_MAX
    /\ pool.user_stake_count \in 0..U32_MAX
    /\ \A o \in Owners :
          /\ user[o].balance_staked \in 0..U64_MAX
          /\ user[o].reward_per_token_pending \in 0..U64_MAX
          /\ user[o].maturity_time \in 0..U64_MAX
          /\ user[o].reward_per_token_complete \in 0..U128_MAX

\* The checkpoint in exact integer arithmetic (part of C16): the time
\* difference, its product with reward_rate and PRECISION, the new
\* accumulator, the user's product and the user's new pending reward.
C16_Exact(o) ==
    LET dt == Min(now, pool.reward_duration_end) - pool.last_update_time
        prod == dt * pool.reward_rate * PRECISION
        rpt == IF pool.total_staked = 0 THEN pool.reward_per_token_stored
               ELSE pool.reward_per_token_stored
                        + (prod \div pool.total_staked)
        diff == rpt - user[o].reward_per_token_complete
        uprod == user[o].balance_staked * diff
        pend == (uprod \div PRECISION) + user[o].reward_per_token_pending
    IN  [rpt |-> rpt, pend |-> pend,
         rpt_ok |-> pool.total_staked = 0
                     \/ (dt >= 0 /\ prod <= U128_MAX /\ rpt <= U128_MAX),
         pend_ok |-> diff >= 0 /\ uprod <= U128_MAX /\ pend <= U64_MAX]

\* The checkpoint fails exactly when an exact result leaves its range and
\* otherwise stores the exact results (part of C16).
C16_Checkpoint ==
    ~pool_closed =>
        \A o \in Owners :
            LET ex == C16_Exact(o)
                upd == update_rewards(pool, user[o], TRUE,
                                      pool.total_staked, now)
                pupd == update_rewards(pool, NoUser, FALSE,
                                       pool.total_staked, now)
            IN  /\ pupd.panic <=> ~ex.rpt_ok
                /\ upd.panic <=> ~(ex.rpt_ok /\ ex.pend_ok)
                /\ ~pupd.panic =>
                      pupd.pool.reward_per_token_stored = ex.rpt
                /\ ~upd.panic =>
                      /\ upd.pool.reward_per_token_stored = ex.rpt
                      /\ upd.user.reward_per_token_pending = ex.pend
                      /\ upd.user.reward_per_token_complete = ex.rpt

\* stake and unstake fail when the exact balance or total leaves the u64
\* range, whatever the build does on "+=" and "-=" (part of C16).
C16_StakeGuards ==
    ~pool_closed =>
        \A o \in Owners, a \in 1..U64_MAX :
            /\ (pool.total_staked + a > U64_MAX
                    \/ user[o].balance_staked + a > U64_MAX) =>
                  \A f \in BOOLEAN, ts \in add_assign(pool.total_staked, a) :
                      stake_res(o, a, f, ts) # "ok"
            /\ (pool.total_staked - a < 0
                    \/ user[o].balance_staked - a < 0) =>
                  \A ts \in sub_assign(pool.total_staked, a) :
                      unstake_res(o, a, ts) # "ok"

\* A stake, unstake, claim or fund step stores exact results (part of C16).
C16_Step ==
    /\ (last'.op = "stake") =>
          /\ pool'.total_staked = pool.total_staked + last'.amount
          /\ user'[last'.who].balance_staked
                 = user[last'.who].balance_staked + last'.amount
          /\ user'[last'.who].maturity_time = now + pool.lock_period
    /\ (last'.op = "unstake") =>
          /\ pool'.total_staked = pool.total_staked - last'.amount
          /\ user'[last'.who].balance_staked
                 = user[last'.who].balance_staked - last'.amount
    /\ (last'.op \in {"stake", "unstake", "claim"}) =>
          /\ pool'.reward_per_token_stored = C16_Exact(last'.who).rpt
          /\ user'[last'.who].reward_per_token_complete
                 = C16_Exact(last'.who).rpt
    /\ (last'.op \in {"stake", "unstake"}) =>
          user'[last'.who].reward_per_token_pending
              = C16_Exact(last'.who).pend
    /\ (last'.op = "fund") =>
          /\ pool'.reward_per_token_stored = C16_Exact(2).rpt
          /\ pool'.reward_rate =
                IF now >= pool.reward_duration_end
                THEN last'.amount \div pool.reward_duration
                ELSE (last'.amount
                        + (pool.reward_duration_end - now) * pool.reward_rate)
                     \div pool.reward_duration
          /\ pool'.reward_duration_end = now + pool.reward_duration

\* C16: no numeric field wraps or is truncated: every field stays in the
\* range of its type, the checkpoint fails exactly when an exact result or
\* intermediate leaves its range, stake and unstake fail when
\* total_staked + amount or total_staked - amount (or the balance) would
\* leave the u64 range, and every successful step stores the exact results.
C16_NoWrap ==
    []C16_Range /\ []C16_Checkpoint /\ []C16_StakeGuards /\ [][C16_Step]_vars

\* total_staked is u64::MAX and a staker whose own balance has room stakes
\* 1 more: the instruction fails whatever "+=" would do
C16_Witness ==
    /\ pool.total_staked = U64_MAX
    /\ \E o \in Owners :
          /\ user[o].open
          /\ user[o].balance_staked + 1 <= U64_MAX
          /\ \A ts \in add_assign(pool.total_staked, 1) :
                stake_res(o, 1, TRUE, ts) = "TransferFailed"

\* C18 as stated: a stake(amount) of a user followed, with no other stake
\* or unstake of that user in between, by its unstake(amount) restores the
\* user's balance_staked and the pool's total_staked to their values before
\* the stake and moves amount out of the staking vault.
C18_Original ==
    (rt.phase = "done") =>
        /\ rt.balance_after = rt.balance
        /\ rt.total_after = rt.total
        /\ rt.returned = rt.amount

\* C18 (amended): the round trip restores the user's balance_staked and
\* returns exactly amount; total_staked ends at its value before the stake
\* plus the net amount other users staked in between, so it is restored
\* when no other user staked or unstaked in between.
C18_RoundTrip ==
    (rt.phase = "done") =>
        /\ rt.balance_after = rt.balance
        /\ rt.total_after = rt.total + rt.others
        /\ rt.returned = rt.amount
        /\ rt.amount > 0
        /\ user[rt.who].maturity_time <= now

\* a user has completed a round trip while the other user staked in
\* between
C18_Witness ==
    /\ rt.phase = "done"
    /\ last.op = "unstake" /\ last.who = rt.who
    /\ rt.amount > 0
    /\ rt.others > 0

\* user_stake_count is the number of open records, and close_user never
\* fails on the decrement (part of C21).
C21_Count ==
    /\ pool.user_stake_count = Cardinality(OpenUsers)
    /\ \A o \in Owners : close_user_res(o) # "Panic"

\* user_stake_count changes by create_user (+1) and close_user (-1) only,
\* and each of them changes it (part of C21).
C21_Step ==
    /\ (last'.op = "create_user") =>
          pool'.user_stake_count = pool.user_stake_count + 1
    /\ (last'.op = "close_user") =>
          /\ pool.user_stake_count >= 1
          /\ pool'.user_stake_count = pool.user_stake_count - 1
    /\ (pool'.user_stake_count # pool.user_stake_count) =>
          last'.op \in {"create_user", "close_user"}

\* C21: user_stake_count equals the number of open User records of the
\* pool: create_user adds exactly 1, close_user removes exactly 1 and never
\* underflows, nothing else changes it.
C21_UserStakeCount == []C21_Count /\ [][C21_Step]_vars

\* one of two open records has just been closed
C21_Witness ==
    /\ last.op = "close_user"
    /\ pool.user_stake_count = 1
    /\ \E o \in Owners : user[o].open /\ user[o].balance_staked > 0

\* The reward an open record is owed on the stored accumulator (C22).
C22_Owed(o) ==
    IF ~user[o].open THEN 0
    ELSE user[o].reward_per_token_pending
           + ((user[o].balance_staked
                 * (pool.reward_per_token_stored
                      - user[o].reward_per_token_complete))
              \div PRECISION)

\* The reward an open record is owed after a checkpoint at the current
\* time; the value on the stored accumulator when that checkpoint fails.
C22_OwedNow(o) ==
    LET upd == update_rewards(pool, user[o], TRUE, pool.total_staked, now)
    IN  IF ~user[o].open THEN 0
        ELSE IF upd.panic THEN C22_Owed(o)
        ELSE upd.user.reward_per_token_pending

RECURSIVE C22_Sum(_, _)
C22_Sum(S, now_) ==
    IF S = {} THEN 0
    ELSE LET o == CHOOSE x \in S : TRUE
         IN  (IF now_ THEN C22_OwedNow(o) ELSE C22_Owed(o))
                 + C22_Sum(S \ {o}, now_)

\* C22: the rewards owed to all users, on the stored accumulator and after
\* a checkpoint at the current time, are covered by the reward vault, so a
\* claim that succeeds pays the whole pending reward: the clamp to the vault
\* balance never reduces it.
C22_RewardSolvency ==
    ~pool_closed =>
        /\ C22_Sum(Owners, FALSE) <= reward_vault
        /\ C22_Sum(Owners, TRUE) <= reward_vault
        /\ \A o \in Owners :
              claim_res(o) = "ok" =>
                  claim_reward_amount(C22_OwedNow(o), reward_vault)
                      = C22_OwedNow(o)

\* both stakers are owed a reward, one of them has claimed in this epoch
\* already, and rounding has left the vault with more than is owed
C22_Witness ==
    /\ ~pool_closed
    /\ last.op = "claim"
    /\ \A o \in Owners : user[o].open /\ user[o].balance_staked > 0
    /\ \E o \in Owners : C22_OwedNow(o) > 0
    /\ C22_Sum(Owners, TRUE) > 0
    /\ C22_Sum(Owners, TRUE) < reward_vault

\* The order of the checkpoint times (part of C23); the last conjunct is
\* the subtraction of the checkpoint.
C23_Order ==
    /\ pool.last_update_time <= pool.reward_duration_end
    /\ pool.last_update_time <= now
    /\ pool.reward_duration_end - pool.last_update_time
           <= pool.reward_duration
    /\ checked_sub(last_time_reward_applicable(pool.reward_duration_end, now),
                   pool.last_update_time) # PANIC

\* last_update_time never decreases (part of C23).
C23_Step == pool'.last_update_time >= pool.last_update_time

\* C23: under a monotonic clock last_update_time <= reward_duration_end,
\* last_update_time <= now and reward_duration_end - last_update_time <=
\* reward_duration in every state, so the subtraction effective_time -
\* last_update_time of the checkpoint never underflows, and
\* last_update_time never decreases.
C23_TimeOrdering == []C23_Order /\ [][C23_Step]_vars

\* a checkpoint after the end of a funded epoch: last_update_time stops at
\* reward_duration_end, behind the clock
C23_Witness ==
    /\ last.op \in {"stake", "unstake", "claim"}
    /\ pool.reward_duration_end > 0
    /\ now > pool.reward_duration_end
    /\ pool.last_update_time = pool.reward_duration_end

\* A paused pool is past its epoch; an unfunded pool can be paused and
\* cannot be closed (part of C24).
C24_Paused ==
    /\ pool.paused => pool.reward_duration_end < now
    /\ (~pool_closed /\ pool.reward_duration_end = 0) =>
          /\ \A c \in Signers : close_pool_res(c) # "ok"
          /\ (~pool.paused /\ now > 0) => pause_res(pool.authority) = "ok"

\* reward_rate and reward_duration_end are frozen while the pool stays
\* paused, and the pool that is closed has been funded (part of C24).
C24_Step ==
    /\ (pool.paused /\ pool'.paused) =>
          /\ pool'.reward_rate = pool.reward_rate
          /\ pool'.reward_duration_end = pool.reward_duration_end
    /\ (pool_closed' /\ ~pool_closed) => pool.reward_duration_end > 0

\* C24: while paused is true reward_duration_end < now, and reward_rate and
\* reward_duration_end do not change while the pool stays paused; a pool
\* that was never funded (reward_duration_end = 0) can be paused but not
\* closed.
C24_PausedAfterEpoch == []C24_Paused /\ [][C24_Step]_vars

\* a pool that was never funded has just been paused: its close_pool is
\* refused although no user record is open
C24_Witness ==
    /\ last.op = "pause"
    /\ pool.paused /\ ~pool_closed
    /\ pool.reward_duration_end = 0
    /\ pool.user_stake_count = 0 /\ pool.total_staked = 0
    /\ close_pool_res(pool.authority) = "ConstraintRaw"

====
